---- MODULE Spec2Model ----
(***************************************************************************)
(* Wake-word listener of src/main.py: the audio callback on_audio, the     *)
(* per-session thread transcription_worker with end_session_and_           *)
(* postprocess, and the shutdown path of main, as one state machine.       *)
(*                                                                         *)
(* Time is the value of time.monotonic() in ticks of 1/TicksPerSec second. *)
(* Every `with state_lock:` block is one atomic step; a read of the clock  *)
(* is folded into the locked block that follows it, and code that touches  *)
(* only thread-local names into the step before it.  Wake scores are in    *)
(* units of 1/ScoreScale.                                                  *)
(*                                                                         *)
(* The TextBufferEPD of src/display.py is the record tb; DisplaySpec       *)
(* drives its public calls in any order.                                   *)
(***************************************************************************)
EXTENDS Integers, Sequences, FiniteSets, TLC

\* ---------------------------------------------------------------- bounds
MaxTime == 17        \* the clock runs to MaxTime (see Tick)
MaxApp == 3          \* blocks appended to transcription_buffer over a run
MaxSessions == 2     \* wake triggers over a run
CapSlack == 1        \* ticks the clock may run past the hard cap of a session
MaxLag == 1          \* ticks the clock may advance while one callback runs
MaxRefresh == 2      \* largest full_refresh_every a TextBufferEPD is built with
MaxItems == 2        \* items in the text buffer of a TextBufferEPD
MaxPanel == 5        \* partial updates sent to the panel without a full refresh

\* ------------------------------------------------------------- constants
TicksPerSec == 2
ScoreScale == 10
WAKE_SCORE_THRESHOLD == (50 * ScoreScale) \div 100
WAKE_HYSTERESIS_FRAMES == 3
RETRIGGER_GAP_SEC == (15 * TicksPerSec) \div 10
POST_SESSION_COOLDOWN_SEC == (15 * TicksPerSec) \div 10
SESSION_MAX_SEC == 40 * TicksPerSec
SILENCE_TIMEOUT_SEC == 5 * TicksPerSec
TRANSITION_GUARD_SEC == (5 * TicksPerSec) \div 10
JOIN_TIMEOUT_SEC == 2 * TicksPerSec
RMS_SILENCE_THRESHOLD == 500
FULL_REFRESH_EVERY == 30     \* display.py line 14, the default main() uses

\* Scores the wake model returns when the input is not scripted: one below
\* the threshold and one equal to it.
Scores == {WAKE_SCORE_THRESHOLD - 1, WAKE_SCORE_THRESHOLD}
\* The scored chunks of the scenario of spec section 8.
ExampleScores == <<2, 6, 7, 8, 3>>
\* RMS levels of the blocks the driver delivers: just below the silence
\* threshold and equal to it.
Levels == {RMS_SILENCE_THRESHOLD - 1, RMS_SILENCE_THRESHOLD}

Workers == 1..MaxSessions

VARIABLES
    now,                     \* time.monotonic()
    \* ---- state of main() shared by the closures (lines 125-135)
    last_trigger_ts,
    transcribing,
    wake_cooldown_until,
    consecutive_wake_hits,
    transcription_buffer,    \* sequence of block ids
    transcription_thread,    \* 0 is None, else the worker last started
    transcription_start_ts,
    silence_start_ts,
    \* ---- on_audio: position and locals
    a_pc, a_now, a_rms, a_score,
    \* ---- transcription_worker / end_session_and_postprocess, per thread
    w_pc, w_why, arr, transcript_text,
    \* ---- main: position, the local of the finally block, start of join
    m_pc, running, m_join_ts,
    \* ---- history
    nsess,                   \* wake triggers so far
    napp,                    \* blocks appended so far (the last block id)
    sess_first,              \* napp when the current session started
    appended,                \* ids appended while transcribing, this session
    recent,                  \* scores evaluated since the last trigger
    script,                  \* scores the wake model will return next
    a_late,                  \* the callback began after a finalizer had drained
    last_silent,             \* the last block appended this session was silent
    run_T,                   \* callback time of the first block of the silent run
    t_out,                   \* per worker: what the transcriber did
    p_out,                   \* per worker: what the post-processor did
    \* ---- the TextBufferEPD of src/display.py (text_buffer, line 91)
    tb

vars == <<now, last_trigger_ts, transcribing, wake_cooldown_until,
          consecutive_wake_hits, transcription_buffer, transcription_thread,
          transcription_start_ts, silence_start_ts,
          a_pc, a_now, a_rms, a_score,
          w_pc, w_why, arr, transcript_text,
          m_pc, running, m_join_ts,
          nsess, napp, sess_first, appended, recent, script, a_late,
          last_silent, run_T, t_out, p_out, tb>>

shared == <<last_trigger_ts, transcribing, wake_cooldown_until,
            consecutive_wake_hits, transcription_buffer, transcription_thread,
            transcription_start_ts, silence_start_ts>>
audio_locals == <<a_pc, a_now, a_rms, a_score>>
worker_locals == <<w_pc, w_why, arr, transcript_text>>
main_locals == <<m_pc, running, m_join_ts>>
history == <<nsess, napp, sess_first, appended, recent, script, a_late,
             last_silent, run_T, t_out, p_out>>

\* Positions of a worker in its poll loop: about to poll, and asleep.
Polling == {"w226", "w242"}
\* Positions of a worker between leaving the poll loop and its cleanup step.
Finalizing == {"w161", "w179", "w201", "w211"}
\* Those of them at which the buffer has been drained.
Drained == {"w179", "w201", "w211"}
\* Positions at which a worker thread has ended.
Ended == {"done", "raised198", "raised148"}

\* ---------------------------------------------------------- TextBufferEPD
\* src/display.py.  A TextBufferEPD is a record of the fields that decide
\* what is sent to the panel: the options fast_mode and full_refresh_every,
\* the capabilities of the driver (_cap, lines 30-36), _buffer, whether
\* _last_img is set, and _partials_since_full.  Beside them are kept the
\* number of partial updates sent to the panel since its last full refresh
\* (panel_partials) and the kind of the last update sent (panel_last).
\* Lines 4-43: __init__ ends with a full clear of the panel.
NewTextBuffer(fast, every, part, window) ==
    [fast_mode |-> fast, full_refresh_every |-> every,
     displayPartial |-> part, displayPartialWindow |-> window,
     buffer |-> <<>>, last_img |-> FALSE, partials_since_full |-> 0,
     panel_partials |-> 0, panel_last |-> "full"]

\* Lines 51-52, 89-90, 100-101, 182-183: _enter_full_mode and a full
\* display or Clear(0xFF).
full_display(d) == [d EXCEPT !.panel_partials = 0, !.panel_last = "full"]

\* Lines 151-185: _fast_push; bbox says that _last_img is set and differs
\* from the frame.
fast_push(d, bbox) ==
    IF (bbox /\ d.displayPartialWindow) \/ d.displayPartial
    THEN [d EXCEPT !.panel_partials = @ + 1, !.panel_last = "partial"]
    ELSE full_display(d)

\* Lines 46-60: clear.
clear(d, hardware) ==
    LET d1 == [d EXCEPT !.buffer = <<>>, !.last_img = FALSE] IN
    IF hardware THEN full_display(d1) ELSE fast_push(d1, FALSE)

\* Lines 81-110: push; changed says that the frame rendered now differs
\* from the one rendered last.
push(d, changed) ==
    IF \/ ~d.fast_mode
       \/ (d.full_refresh_every > 0
             /\ d.partials_since_full >= d.full_refresh_every)
    THEN [full_display(d) EXCEPT !.last_img = TRUE, !.partials_since_full = 0]
    ELSE [fast_push(d, d.last_img /\ changed) EXCEPT
            !.last_img = TRUE, !.partials_since_full = @ + 1]

\* Lines 62-66: set_text.
set_text(d, text, do_push, changed) ==
    LET d1 == [clear(d, FALSE) EXCEPT !.buffer = <<text>>] IN
    IF do_push THEN push(d1, changed) ELSE d1

\* Lines 68-71: write.
write(d, text, do_push, changed) ==
    LET d1 == [d EXCEPT !.buffer = Append(@, text)] IN
    IF do_push THEN push(d1, changed) ELSE d1

\* Lines 73-76: writeline.
writeline(d, text, do_push, changed) ==
    LET d1 == [d EXCEPT !.buffer = Append(@, text \o "\n")] IN
    IF do_push THEN push(d1, changed) ELSE d1

\* main(), lines 125-137: the state of the listener when the stream opens.
MainInit ==
    /\ now = 0
    /\ last_trigger_ts = 0
    /\ transcribing = FALSE
    /\ wake_cooldown_until = 0
    /\ consecutive_wake_hits = 0
    /\ transcription_buffer = <<>>
    /\ transcription_thread = 0
    /\ transcription_start_ts = 0
    /\ silence_start_ts = 0
    /\ a_pc = "idle" /\ a_now = 0 /\ a_rms = 0 /\ a_score = 0
    /\ w_pc = [w \in Workers |-> "none"]
    /\ w_why = [w \in Workers |-> "none"]
    /\ arr = [w \in Workers |-> <<>>]
    /\ transcript_text = [w \in Workers |-> FALSE]
    /\ m_pc = "run" /\ running = FALSE /\ m_join_ts = 0
    /\ nsess = 0 /\ napp = 0 /\ sess_first = 0
    /\ appended = <<>> /\ recent = <<>>
    /\ script \in {<<>>, ExampleScores}
    /\ a_late = FALSE /\ last_silent = FALSE /\ run_T = 0
    /\ t_out = [w \in Workers |-> "none"]
    /\ p_out = [w \in Workers |-> "none"]

\* The text_buffer of main() (line 91) is built with the defaults of
\* lines 13-14 on the epd2in13_V4 driver, taken here to offer
\* displayPartial and no displayPartialWindow.  What main() writes to it is
\* modelled by the outcomes of set_text in the steps of the listener; the
\* object itself is exercised by DisplaySpec.
Init ==
    /\ MainInit
    /\ tb = NewTextBuffer(TRUE, FULL_REFRESH_EVERY, TRUE, FALSE)

\* ------------------------------------------------------------------ clock
\* The clock runs to MaxTime.  A session that has received all MaxApp blocks
\* may run on to its hard cap if no silence run is open, or if the silence
\* run began with the session and the watchdog is asleep (so that the hard
\* cap and the silence timeout can be due at the same poll).  Once the
\* stream is closed the clock matters only to the join, which gives up
\* after JOIN_TIMEOUT_SEC.
Tick ==
    /\ \/ m_pc = "run"
       \/ m_pc = "m337" /\ now - m_join_ts < JOIN_TIMEOUT_SEC
    /\ a_pc \in {"idle", "aborted"} \/ now - a_now < MaxLag
    /\ \/ now < MaxTime
       \/ /\ transcribing
          /\ napp = MaxApp
          /\ \/ silence_start_ts = 0
             \/ /\ silence_start_ts = transcription_start_ts
                /\ w_pc[nsess] = "w242"
          /\ now < transcription_start_ts + SESSION_MAX_SEC + CapSlack
    /\ now' = now + 1
    /\ UNCHANGED <<shared, audio_locals, worker_locals, main_locals, history>>
    /\ UNCHANGED tb

\* --------------------------------------------------------- pure helpers
\* is_silence (lines 76-82) on a block of CHUNK_SIZE samples of RMS rms.
is_silence(rms) == rms < RMS_SILENCE_THRESHOLD

\* Mutant of SilenceAfter: a non-silent block leaves the timer running.
SilenceAfterNoReset(silence, rms, t) ==
    IF rms < RMS_SILENCE_THRESHOLD
    THEN (IF silence = 0 THEN t ELSE silence)
    ELSE silence

\* Mutant of SilenceAfter: every silent block restarts the timer.
SilenceAfterOverwrite(silence, rms, t) ==
    IF rms < RMS_SILENCE_THRESHOLD THEN t ELSE 0

\* Lines 275-279: the silence timer after a block processed at time t.
SilenceAfter(silence, rms, t) ==
    IF is_silence(rms)
    THEN (IF silence = 0 THEN t ELSE silence)
    ELSE 0

\* Mutant of Gated: the cooldown window is not checked.
GatedNoCooldown(t, cooldown, last) == (t - last) < RETRIGGER_GAP_SEC

\* Mutant of Gated: the retrigger gap is not checked.
GatedNoGap(t, cooldown, last) == t < cooldown

\* Lines 283-286: the callback returns without scoring.
Gated(t, cooldown, last) ==
    \/ t < cooldown
    \/ (t - last) < RETRIGGER_GAP_SEC

\* Mutant of AfterGate: a gated callback goes on to score the chunk.
AfterGateScored(gated) == "a289"

\* Lines 283-289: a gated callback returns, another goes on to the scorer.
AfterGate(gated) == IF gated THEN "idle" ELSE "a289"

\* Line 293: the score counts as a hit.
IsHit(score) == score >= WAKE_SCORE_THRESHOLD

\* Mutant of NextHits: a score below the threshold does not clear the count.
NextHitsNoReset(hits, score) == IF score >= WAKE_SCORE_THRESHOLD THEN hits + 1 ELSE hits

\* Lines 293-296: the hysteresis accumulator after one evaluated score.
NextHits(hits, score) == IF IsHit(score) THEN hits + 1 ELSE 0

\* Mutant of HitsAfterTrigger: the trigger leaves the count as it is.
HitsAfterTriggerKept(hits) == hits

\* Line 301: the hysteresis accumulator after a trigger.
HitsAfterTrigger(hits) == 0

\* Mutant of Triggers: one more hit is required.
TriggersLate(hits) == hits > WAKE_HYSTERESIS_FRAMES

\* Line 298.
Triggers(hits) == hits >= WAKE_HYSTERESIS_FRAMES

\* Mutant of PollOutcome: the hard cap is compared with > instead of >=.
PollOutcomeLateCap(run, started, silence_started, t) ==
    IF ~run THEN "stopped"
    ELSE IF t - started > SESSION_MAX_SEC THEN "max"
    ELSE IF silence_started > 0 /\ (t - silence_started) >= SILENCE_TIMEOUT_SEC
         THEN "silence"
    ELSE "sleep"

\* Lines 231-242: what one poll of the watchdog decides from its snapshot.
PollOutcome(run, started, silence_started, t) ==
    IF ~run THEN "stopped"
    ELSE IF t - started >= SESSION_MAX_SEC THEN "max"
    ELSE IF silence_started > 0 /\ (t - silence_started) >= SILENCE_TIMEOUT_SEC
         THEN "silence"
    ELSE "sleep"

\* Mutant of AfterFlag: the callback scores the block whatever the flag says.
AfterFlagIgnored(flag) == "a283"

\* Lines 272 and 282: where the callback goes on the flag it has read.
AfterFlag(flag) == IF flag THEN "a273" ELSE "a283"

\* Lines 181-198: where the finalizer goes after the Whisper call.  Whatever
\* is raised inside the try block, by the transcriber or by set_text at
\* line 192 or 195, is caught at line 196; an exception raised by the
\* handler's set_text at line 198 leaves the function.
AfterTranscribe(result, sink_ok, handler_sink_ok) ==
    IF result # "raise" /\ sink_ok THEN "w201"
    ELSE IF handler_sink_ok THEN "w201"
    ELSE "raised198"

\* Mutant of AfterPostProcess: a failed post-processing runs the
\* finalization again.
AfterPostProcessAgain(raised) == IF raised THEN "w161" ELSE "w211"

\* Lines 202-208: whatever the LLM call or the printer raises is caught.
AfterPostProcess(raised) == "w211"

\* Mutant of StartBuffer: the buffer is not cleared when a session starts.
StartBufferKept(buf) == buf

\* Line 307: the session buffer when a session starts.
StartBuffer(buf) == <<>>

\* Mutant of GuardUntil: the session starts without the transition guard.
GuardUntilNone(t) == t

\* Line 310: the brief guard set when a session starts.
GuardUntil(t) == t + TRANSITION_GUARD_SEC

\* Mutant of DrainedArray: the last block is left out of the array.
DrainedArrayShort(buf) == SubSeq(buf, 1, Len(buf) - 1)

\* Lines 162-174: total_len items are popped from the left into arr.
DrainedArray(buf) == SubSeq(buf, 1, Len(buf))

\* Lines 169-172: what the popleft loop leaves in the buffer.
DrainedRest(buf) == SubSeq(buf, Len(buf) + 1, Len(buf))

\* Line 212: the buffer after the cleanup step.
CleanedBuffer(buf) == <<>>

\* The last n elements of a sequence.
LastN(s, n) == IF Len(s) <= n THEN s ELSE SubSeq(s, Len(s) - n + 1, Len(s))

\* ------------------------------------------------------------- on_audio
\* The locals of a callback that has returned (or raised).
AudioReturn(pc) ==
    /\ a_pc' = pc
    /\ a_now' = 0
    /\ a_rms' = 0
    /\ a_score' = 0
    /\ a_late' = FALSE

\* Lines 249-272: the driver calls on_audio with a block; a block shorter
\* than CHUNK_SIZE is dropped (line 265); otherwise the callback reads the
\* clock and, under the lock, currently_transcribing = transcribing.
OnAudioEnter ==
    /\ m_pc = "run"
    /\ a_pc = "idle"
    /\ napp < MaxApp \/ ~transcribing
    /\ \E full \in BOOLEAN, rms \in Levels :
         IF ~full
         THEN UNCHANGED <<audio_locals, a_late>>
         ELSE /\ a_pc' = AfterFlag(transcribing)
              /\ a_now' = now
              /\ a_rms' = rms
              /\ a_late' = (\E w \in Workers : w_pc[w] \in Drained)
              /\ UNCHANGED a_score
    /\ UNCHANGED <<now, shared, worker_locals, main_locals,
                   nsess, napp, sess_first, appended, recent, script,
                   last_silent, run_T, t_out, p_out>>
    /\ UNCHANGED tb

\* Lines 273-280: append the block and track silence, under the lock.
OnAudioAppend ==
    /\ a_pc = "a273"
    /\ napp' = napp + 1
    /\ transcription_buffer' = Append(transcription_buffer, napp + 1)
    /\ silence_start_ts' = SilenceAfter(silence_start_ts, a_rms, a_now)
    /\ appended' = IF transcribing THEN Append(appended, napp + 1) ELSE appended
    /\ last_silent' = is_silence(a_rms)
    /\ run_T' = IF ~is_silence(a_rms) THEN 0
                ELSE IF last_silent THEN run_T ELSE a_now
    /\ AudioReturn("idle")
    /\ UNCHANGED <<now, last_trigger_ts, transcribing, wake_cooldown_until,
                   consecutive_wake_hits, transcription_thread,
                   transcription_start_ts,
                   worker_locals, main_locals,
                   nsess, sess_first, recent, script, t_out, p_out>>
    /\ UNCHANGED tb

\* Lines 283-286: cooldown and retrigger gap.
OnAudioGate ==
    /\ a_pc = "a283"
    /\ LET pc == AfterGate(Gated(a_now, wake_cooldown_until, last_trigger_ts)) IN
       IF pc = "idle"
       THEN AudioReturn("idle")
       ELSE /\ a_pc' = pc
            /\ UNCHANGED <<a_now, a_rms, a_score, a_late>>
    /\ UNCHANGED <<now, shared, worker_locals, main_locals,
                   nsess, napp, sess_first, appended, recent, script,
                   last_silent, run_T, t_out, p_out>>
    /\ UNCHANGED tb

\* Lines 289-290: the wake model scores the chunk.  Once MaxSessions
\* triggers have fired the model returns only scores below the threshold.
OnAudioPredict ==
    /\ a_pc = "a289"
    /\ \E s \in (IF script # <<>> THEN {Head(script)}
                 ELSE IF nsess < MaxSessions THEN Scores
                 ELSE {x \in Scores : ~IsHit(x)}) :
         /\ a_score' = s
         /\ recent' = LastN(Append(recent, s), WAKE_HYSTERESIS_FRAMES)
    /\ script' = IF script # <<>> THEN Tail(script) ELSE script
    /\ a_pc' = "a293"
    /\ UNCHANGED <<now, shared, a_now, a_rms, worker_locals, main_locals,
                   nsess, napp, sess_first, appended, a_late,
                   last_silent, run_T, t_out, p_out>>
    /\ UNCHANGED tb

\* Lines 293-303: hysteresis and, on a trigger, the bookkeeping before the
\* lock is taken.  text_buffer.set_text("Listening...") drives the panel and
\* may raise; an exception leaving the callback aborts the stream.  A
\* scripted scenario ends with the trigger.
OnAudioHysteresis ==
    /\ a_pc = "a293"
    /\ LET hits == NextHits(consecutive_wake_hits, a_score) IN
       IF Triggers(hits)
       THEN /\ last_trigger_ts' = a_now
            /\ consecutive_wake_hits' = HitsAfterTrigger(hits)
            /\ nsess' = nsess + 1
            /\ recent' = <<>>
            /\ script' = <<>>
            /\ \E sink_ok \in BOOLEAN :
                 IF sink_ok
                 THEN /\ a_pc' = "a305"
                      /\ UNCHANGED <<a_now, a_rms, a_score, a_late>>
                 ELSE AudioReturn("aborted")
       ELSE /\ consecutive_wake_hits' = hits
            /\ AudioReturn("idle")
            /\ UNCHANGED <<last_trigger_ts, nsess, recent, script>>
    /\ UNCHANGED <<now, transcribing, wake_cooldown_until,
                   transcription_buffer, transcription_thread,
                   transcription_start_ts, silence_start_ts,
                   worker_locals, main_locals,
                   napp, sess_first, appended, last_silent, run_T, t_out, p_out>>
    /\ UNCHANGED tb

\* Lines 305-310: the session starts, under the lock.
OnAudioStart ==
    /\ a_pc = "a305"
    /\ transcribing' = TRUE
    /\ transcription_buffer' = StartBuffer(transcription_buffer)
    /\ transcription_start_ts' = a_now
    /\ silence_start_ts' = 0
    /\ wake_cooldown_until' = GuardUntil(a_now)
    /\ sess_first' = napp
    /\ appended' = <<>>
    /\ last_silent' = FALSE
    /\ run_T' = 0
    /\ a_pc' = "a313"
    /\ UNCHANGED <<now, last_trigger_ts, consecutive_wake_hits,
                   transcription_thread, a_now, a_rms, a_score,
                   worker_locals, main_locals,
                   nsess, napp, recent, script, a_late, t_out, p_out>>
    /\ UNCHANGED tb

\* Lines 313-314: the watchdog thread of the session is started.
OnAudioSpawn ==
    /\ a_pc = "a313"
    /\ transcription_thread' = nsess
    /\ w_pc' = [w_pc EXCEPT ![nsess] = "w226"]
    /\ AudioReturn("idle")
    /\ UNCHANGED <<now, last_trigger_ts, transcribing, wake_cooldown_until,
                   consecutive_wake_hits, transcription_buffer,
                   transcription_start_ts, silence_start_ts,
                   w_why, arr, transcript_text,
                   main_locals,
                   nsess, napp, sess_first, appended, recent, script,
                   last_silent, run_T, t_out, p_out>>
    /\ UNCHANGED tb

\* -------------------------------------------------- transcription_worker
\* Lines 224-240: one poll: the clock (line 225), the snapshot under the
\* lock and the decision taken from it.
WorkerPoll(w) ==
    /\ m_pc # "exited"
    /\ w_pc[w] = "w226"
    /\ LET out == PollOutcome(transcribing, transcription_start_ts,
                              silence_start_ts, now) IN
       IF out = "sleep"
       THEN /\ w_pc' = [w_pc EXCEPT ![w] = "w242"]
            /\ UNCHANGED w_why
       ELSE /\ w_pc' = [w_pc EXCEPT ![w] = "w161"]
            /\ w_why' = [w_why EXCEPT ![w] = out]
    /\ UNCHANGED <<now, shared, audio_locals, arr, transcript_text,
                   main_locals, history>>
    /\ UNCHANGED tb

\* Line 242: time.sleep(0.05) returns; the sleep is shorter than a tick, so
\* the next poll may read the same clock value or a later one.
WorkerWake(w) ==
    /\ m_pc # "exited"
    /\ w_pc[w] = "w242"
    /\ w_pc' = [w_pc EXCEPT ![w] = "w226"]
    /\ UNCHANGED <<now, shared, audio_locals, w_why, arr, transcript_text,
                   main_locals, history>>
    /\ UNCHANGED tb

\* ------------------------------------------- end_session_and_postprocess
\* Lines 161-174: drain the buffer into arr, under the lock.
Drain(w) ==
    /\ m_pc # "exited"
    /\ w_pc[w] = "w161"
    /\ arr' = [arr EXCEPT ![w] = DrainedArray(transcription_buffer)]
    /\ transcription_buffer' = DrainedRest(transcription_buffer)
    /\ w_pc' = [w_pc EXCEPT ![w] = "w179"]
    /\ UNCHANGED <<now, last_trigger_ts, transcribing, wake_cooldown_until,
                   consecutive_wake_hits, transcription_thread,
                   transcription_start_ts, silence_start_ts,
                   audio_locals, w_why, transcript_text,
                   main_locals, history>>
    /\ UNCHANGED tb

\* Lines 176-198: one Whisper call on the whole array, skipped when the
\* array is empty.  The transcriber returns text, returns nothing, or
\* raises; each text_buffer.set_text may raise.
Transcribe(w) ==
    /\ m_pc # "exited"
    /\ w_pc[w] = "w179"
    /\ IF arr[w] = <<>>
       THEN /\ transcript_text' = [transcript_text EXCEPT ![w] = FALSE]
            /\ t_out' = [t_out EXCEPT ![w] = "skipped"]
            /\ w_pc' = [w_pc EXCEPT ![w] = "w201"]
       ELSE \E result \in {"text", "empty", "raise"},
               sink_ok \in BOOLEAN, handler_sink_ok \in BOOLEAN :
              /\ transcript_text' =
                   [transcript_text EXCEPT ![w] = (result = "text")]
              /\ t_out' = [t_out EXCEPT ![w] = result]
              /\ w_pc' = [w_pc EXCEPT ![w] =
                   AfterTranscribe(result, sink_ok, handler_sink_ok)]
    /\ UNCHANGED <<now, shared, audio_locals, w_why, arr, main_locals,
                   nsess, napp, sess_first, appended, recent, script, a_late,
                   last_silent, run_T, p_out>>
    /\ UNCHANGED tb

\* Lines 200-208: the LLM call and the printer, skipped when there is no
\* transcript.
PostProcess(w) ==
    /\ m_pc # "exited"
    /\ w_pc[w] = "w201"
    /\ IF ~transcript_text[w]
       THEN /\ p_out' = [p_out EXCEPT ![w] = "skipped"]
            /\ w_pc' = [w_pc EXCEPT ![w] = "w211"]
       ELSE \E raised \in BOOLEAN :
              /\ p_out' = [p_out EXCEPT ![w] = IF raised THEN "raise" ELSE "ok"]
              /\ w_pc' = [w_pc EXCEPT ![w] = AfterPostProcess(raised)]
    /\ UNCHANGED <<now, shared, audio_locals, w_why, arr,
                   transcript_text, main_locals,
                   nsess, napp, sess_first, appended, recent, script, a_late,
                   last_silent, run_T, t_out>>
    /\ UNCHANGED tb

\* Lines 210-215: cleanup and cooldown, under the lock.
Cleanup(w) ==
    /\ m_pc # "exited"
    /\ w_pc[w] = "w211"
    /\ transcription_buffer' = CleanedBuffer(transcription_buffer)
    /\ transcribing' = FALSE
    /\ wake_cooldown_until' = now + POST_SESSION_COOLDOWN_SEC
    /\ w_pc' = [w_pc EXCEPT ![w] = "w217"]
    /\ UNCHANGED <<now, last_trigger_ts, consecutive_wake_hits,
                   transcription_thread, transcription_start_ts,
                   silence_start_ts, audio_locals, w_why, arr,
                   transcript_text, main_locals, history>>
    /\ UNCHANGED tb

\* Line 217 and lines 144-146: end_session_and_postprocess calls
\* virginize_wake_model and oww.reset() begins, outside state_lock.  The
\* locals of end_session_and_postprocess are not used again.
VirginizeEnter(w) ==
    /\ m_pc # "exited"
    /\ w_pc[w] = "w217"
    /\ w_pc' = [w_pc EXCEPT ![w] = "w146"]
    /\ w_why' = [w_why EXCEPT ![w] = "none"]
    /\ arr' = [arr EXCEPT ![w] = <<>>]
    /\ transcript_text' = [transcript_text EXCEPT ![w] = FALSE]
    /\ t_out' = [t_out EXCEPT ![w] = "none"]
    /\ p_out' = [p_out EXCEPT ![w] = "none"]
    /\ UNCHANGED <<now, shared, audio_locals, main_locals,
                   nsess, napp, sess_first, appended, recent, script, a_late,
                   last_silent, run_T>>
    /\ UNCHANGED tb

\* Lines 146-154: the reset of the wake model ends (oww.reset() returns or
\* the model is re-instantiated); an exception other than AttributeError,
\* such as one raised by set_text at line 148, ends the thread.
Virginize(w) ==
    /\ m_pc # "exited"
    /\ w_pc[w] = "w146"
    /\ \E ok \in BOOLEAN :
         w_pc' = [w_pc EXCEPT ![w] = IF ok THEN "done" ELSE "raised148"]
    /\ UNCHANGED <<now, shared, audio_locals, w_why, arr, transcript_text,
                   main_locals, history>>
    /\ UNCHANGED tb

\* ------------------------------------------------------------------ main
\* Lines 327-331: KeyboardInterrupt in the stream loop; leaving the `with`
\* block closes the stream once the callback in progress has returned.
Interrupt ==
    /\ m_pc = "run"
    /\ a_pc \in {"idle", "aborted"}
    /\ m_pc' = "m332"
    /\ UNCHANGED <<now, shared, audio_locals, worker_locals, running,
                   m_join_ts, history>>
    /\ UNCHANGED tb

\* Lines 332-333: running = transcribing, under the lock.
MainReadRunning ==
    /\ m_pc = "m332"
    /\ running' = transcribing
    /\ m_pc' = "m334"
    /\ UNCHANGED <<now, shared, audio_locals, worker_locals, m_join_ts,
                   history>>
    /\ UNCHANGED tb

\* Lines 334-336: transcribing is forced to False if it was seen True.
MainForce ==
    /\ m_pc = "m334"
    /\ transcribing' = IF running THEN FALSE ELSE transcribing
    /\ m_join_ts' = now
    /\ m_pc' = "m337"
    /\ UNCHANGED <<now, last_trigger_ts, wake_cooldown_until,
                   consecutive_wake_hits, transcription_buffer,
                   transcription_thread, transcription_start_ts,
                   silence_start_ts, audio_locals, worker_locals, running,
                   history>>
    /\ UNCHANGED tb

\* Lines 337-338: join the last worker for at most 2 s, then leave main;
\* the daemon threads end with the process.
MainJoin ==
    /\ m_pc = "m337"
    /\ IF transcription_thread = 0 THEN TRUE
       ELSE \/ w_pc[transcription_thread] \in Ended
            \/ now - m_join_ts >= JOIN_TIMEOUT_SEC
    /\ m_pc' = "exited"
    /\ running' = FALSE
    /\ m_join_ts' = 0
    /\ UNCHANGED <<now, shared, audio_locals, worker_locals, history>>
    /\ UNCHANGED tb

Next ==
    \/ Tick
    \/ OnAudioEnter
    \/ OnAudioAppend
    \/ OnAudioGate
    \/ OnAudioPredict
    \/ OnAudioHysteresis
    \/ OnAudioStart
    \/ OnAudioSpawn
    \/ \E w \in Workers : WorkerPoll(w)
    \/ \E w \in Workers : WorkerWake(w)
    \/ \E w \in Workers : Drain(w)
    \/ \E w \in Workers : Transcribe(w)
    \/ \E w \in Workers : PostProcess(w)
    \/ \E w \in Workers : Cleanup(w)
    \/ \E w \in Workers : VirginizeEnter(w)
    \/ \E w \in Workers : Virginize(w)
    \/ Interrupt
    \/ MainReadRunning
    \/ MainForce
    \/ MainJoin

Spec == Init /\ [][Next]_vars

\* Scheduling: time advances, a callback that has begun runs to its return,
\* every started worker thread is scheduled, and the finally block of main
\* runs to its end.  The arrival of blocks and Ctrl+C are left to the
\* environment.
Fairness ==
    /\ WF_vars(Tick)
    /\ WF_vars(OnAudioAppend \/ OnAudioGate \/ OnAudioPredict
                 \/ OnAudioHysteresis \/ OnAudioStart \/ OnAudioSpawn)
    /\ \A w \in Workers :
         WF_vars(WorkerPoll(w) \/ WorkerWake(w) \/ Drain(w) \/ Transcribe(w)
                   \/ PostProcess(w) \/ Cleanup(w) \/ VirginizeEnter(w)
                   \/ Virginize(w))
    /\ WF_vars(MainReadRunning \/ MainForce \/ MainJoin)

LiveSpec == Spec /\ Fairness

\* ------------------------------------------------- TextBufferEPD, driven
\* The calls a client makes on a TextBufferEPD, in any order and with any
\* arguments; the listener stands still.
Texts == {"a", "b"}
listener == <<now, shared, audio_locals, worker_locals, main_locals, history>>

\* The calls are made while both counts are below MaxPanel.
InPanelBound ==
    /\ tb.panel_partials + 1 < MaxPanel
    /\ tb.partials_since_full < MaxPanel

EpdClear ==
    /\ InPanelBound
    /\ \E hardware \in BOOLEAN : tb' = clear(tb, hardware)
    /\ UNCHANGED listener

EpdSetText ==
    /\ InPanelBound
    /\ \E text \in Texts, do_push \in BOOLEAN, changed \in BOOLEAN :
         tb' = set_text(tb, text, do_push, changed)
    /\ UNCHANGED listener

EpdWrite ==
    /\ InPanelBound
    /\ Len(tb.buffer) < MaxItems
    /\ \E text \in Texts, do_push \in BOOLEAN, changed \in BOOLEAN :
         tb' = write(tb, text, do_push, changed)
    /\ UNCHANGED listener

EpdWriteLine ==
    /\ InPanelBound
    /\ Len(tb.buffer) < MaxItems
    /\ \E text \in Texts, do_push \in BOOLEAN, changed \in BOOLEAN :
         tb' = writeline(tb, text, do_push, changed)
    /\ UNCHANGED listener

EpdPush ==
    /\ InPanelBound
    /\ \E changed \in BOOLEAN : tb' = push(tb, changed)
    /\ UNCHANGED listener

DisplayInit ==
    /\ MainInit
    /\ \E fast \in BOOLEAN, every \in 0..MaxRefresh,
          part \in BOOLEAN, window \in BOOLEAN :
         tb = NewTextBuffer(fast, every, part, window)

DisplayNext ==
    \/ EpdClear
    \/ EpdSetText
    \/ EpdWrite
    \/ EpdWriteLine
    \/ EpdPush

DisplaySpec == DisplayInit /\ [][DisplayNext]_vars


\* ================================================================ claims
\* A worker that is in its poll loop or finalizing before its cleanup step.
SessionWorker(w) == w_pc[w] \in Polling \cup Finalizing

\* The step of on_audio that fires the trigger (lines 298-301).
TriggerStep == a_pc = "a293" /\ nsess' = nsess + 1

\* All of the last WAKE_HYSTERESIS_FRAMES scores evaluated since the last
\* trigger are at or above the threshold.
RunComplete ==
    /\ Len(recent) = WAKE_HYSTERESIS_FRAMES
    /\ \A i \in DOMAIN recent : recent[i] >= WAKE_SCORE_THRESHOLD

\* ---- C1
\* C1: at most one recording session is active at any time: on_audio is
\* about to set transcribing (line 306) or to start the watchdog (line 313)
\* only when transcribing was False and no other watchdog/finalizer is
\* still before its cleanup step, and never two are.
C1_AtMostOneSession ==
    /\ a_pc = "a305" => ~transcribing
    /\ a_pc \in {"a305", "a313"} => \A w \in Workers : ~SessionWorker(w)
    /\ Cardinality({w \in Workers : SessionWorker(w)}) <= 1

\* A second session runs, after a first that ended.
C1_Witness ==
    /\ nsess = 2
    /\ transcribing
    /\ w_pc[2] = "w226"
    /\ w_pc[1] \in {"w217", "done"}

\* ---- C2
\* C2: a trigger fires only on a chunk that completes a run of
\* WAKE_HYSTERESIS_FRAMES consecutive evaluated scores at or above the
\* threshold: WAKE_HYSTERESIS_FRAMES-1 such scores followed by one below the
\* threshold, or a single high score, start nothing.
C2_NoTriggerWithoutFullRun == [][TriggerStep => RunComplete]_vars

\* Two scores at the threshold and then one below it were evaluated, the
\* callback has returned, and no trigger has fired.
C2_Witness ==
    /\ recent = <<WAKE_SCORE_THRESHOLD, WAKE_SCORE_THRESHOLD,
                  WAKE_SCORE_THRESHOLD - 1>>
    /\ a_pc = "idle"
    /\ consecutive_wake_hits = 0
    /\ nsess = 0
    /\ ~transcribing

C4_NoTriggerInsideWindows ==
    /\ [][TriggerStep =>
            /\ a_now >= wake_cooldown_until
            /\ a_now - last_trigger_ts >= RETRIGGER_GAP_SEC]_vars
    /\ [][\A w \in Workers :
            (w_pc[w] = "w211" /\ w_pc'[w] = "w217")
              => wake_cooldown_until' = now + POST_SESSION_COOLDOWN_SEC]_vars
    /\ [][wake_cooldown_until' # wake_cooldown_until =>
            \/ a_pc = "a305"
            \/ \E w \in Workers : w_pc[w] = "w211" /\ w_pc'[w] = "w217"]_vars

\* After a session, a callback outside the retrigger gap is inside the
\* post-session cooldown set by the cleanup step and is about to be gated.
C4_Witness ==
    /\ a_pc = "a283"
    /\ nsess = 1
    /\ w_pc[1] \in {"w217", "done"}
    /\ a_now < wake_cooldown_until
    /\ a_now - last_trigger_ts >= RETRIGGER_GAP_SEC

\* ---- C5
\* C5: a poll of the watchdog goes back to sleep only while
\* now - transcription_start_ts < SESSION_MAX_SEC, and a poll that finds the
\* session running with no silence recorded leaves the loop only when
\* now - transcription_start_ts >= SESSION_MAX_SEC, reporting the hard cap:
\* the loop is left at the first poll at or after the cap, also with
\* silence_start_ts unset.
C5_HardCap ==
    /\ [][\A w \in Workers :
            (w_pc[w] = "w226" /\ w_pc'[w] = "w242")
              => now - transcription_start_ts < SESSION_MAX_SEC]_vars
    /\ [][\A w \in Workers :
            (w_pc[w] = "w226" /\ w_pc'[w] = "w161"
               /\ transcribing /\ silence_start_ts = 0)
              => /\ now - transcription_start_ts >= SESSION_MAX_SEC
                 /\ w_why'[w] = "max"]_vars

\* A session whose blocks were all non-silent has left the poll loop on the
\* hard cap, at the first clock value that reaches it.
C5_Witness ==
    \E w \in Workers :
        /\ w_pc[w] = "w161"
        /\ w_why[w] = "max"
        /\ transcribing
        /\ appended # <<>>
        /\ ~last_silent
        /\ silence_start_ts = 0
        /\ now - transcription_start_ts = SESSION_MAX_SEC

\* ---- C6
\* C6: with T the callback time of the first block of the unbroken run of
\* silent blocks that ends the session's audio so far, a poll goes back to
\* sleep only while no such run is open or now - T < SILENCE_TIMEOUT_SEC,
\* and the loop is left on silence only when the run is open and
\* now - T >= SILENCE_TIMEOUT_SEC; a non-silent block resets the timer, so a
\* run that a non-silent block has ended never ends the session.
C6_SilenceTimeout ==
    /\ [][\A w \in Workers :
            (w_pc[w] = "w226" /\ w_pc'[w] = "w242")
              => (~last_silent \/ now - run_T < SILENCE_TIMEOUT_SEC)]_vars
    /\ [][\A w \in Workers :
            (w_pc[w] = "w226" /\ w_pc'[w] = "w161" /\ w_why'[w] = "silence")
              => /\ last_silent
                 /\ run_T > 0
                 /\ now - run_T >= SILENCE_TIMEOUT_SEC]_vars
    /\ [][(a_pc = "a273" /\ a_pc' = "idle" /\ a_rms >= RMS_SILENCE_THRESHOLD)
            => silence_start_ts' = 0]_vars

\* A session in which a silent run was ended by a non-silent block and a
\* later silent run has lasted SILENCE_TIMEOUT_SEC: the watchdog has left
\* the loop on silence, at the first clock value that reaches the timeout.
C6_Witness ==
    \E w \in Workers :
        /\ w_pc[w] = "w161"
        /\ w_why[w] = "silence"
        /\ Len(appended) = 3
        /\ last_silent
        /\ run_T > transcription_start_ts
        /\ now - run_T = SILENCE_TIMEOUT_SEC


\* The cleanup step of worker w (lines 211-215).
CleanupStep(w) == w_pc[w] = "w211" /\ w_pc'[w] = "w217"

\* ---- C7
\* C7: once the transcriber has been handed the array of a session, the
\* array holds every block that on_audio appended while transcribing was
\* True in that session, in arrival order.
C7_DrainComplete ==
    \A w \in Workers : w_pc[w] \in {"w201", "w211"} => arr[w] = appended

\* ---- C8
\* C8: a block whose callback began after the finalizer had drained the
\* buffer, and before the return to idle, is not appended to
\* transcription_buffer.
C8_NoAppendWhileDraining ==
    [][(a_pc = "a273" /\ a_late) =>
         transcription_buffer' = transcription_buffer]_vars

C10_CleanupAlwaysReached ==
    \A w \in Workers :
        (/\ nsess = w
         /\ w_pc[w] \notin ({"none"} \cup Polling \cup Finalizing))
          => ~transcribing

\* ---- C11
\* C11: a status sink that raises never aborts a session: the callback that
\* fired the trigger goes on to start the session (line 305) whatever
\* set_text does at line 303, and a finalizer leaves the transcription
\* block (lines 179-198) for post-processing and cleanup whatever set_text
\* does at lines 192, 195 and 198.
C11_SinkFailureNeverAborts ==
    /\ [][TriggerStep => a_pc' = "a305"]_vars
    /\ [][\A w \in Workers :
            (w_pc[w] = "w179" /\ w_pc'[w] # "w179") => w_pc'[w] = "w201"]_vars

\* How far a worker thread has come: not started, in the poll loop of
\* transcription_worker, at each step of end_session_and_postprocess, ended.
Stage(pc) ==
    CASE pc = "none" -> 0
      [] pc \in Polling -> 1
      [] pc = "w161" -> 2
      [] pc = "w179" -> 3
      [] pc = "w201" -> 4
      [] pc = "w211" -> 5
      [] pc = "w217" -> 6
      [] pc = "w146" -> 7
      [] OTHER -> 8

SessionFields ==
    {"transcribing", "transcription_buffer", "transcription_start_ts",
     "silence_start_ts", "wake_cooldown_until"}

\* The names of main() that the code of on_audio reads or writes in the step
\* it takes from position pc, and whether that code is inside a
\* `with state_lock:` block.
AudioAccess(pc) ==
    CASE pc = "idle" -> [fields |-> {"transcribing"}, locked |-> TRUE]
      [] pc = "a273" -> [fields |-> {"transcription_buffer", "silence_start_ts"},
                         locked |-> TRUE]
      [] pc = "a283" -> [fields |-> {"wake_cooldown_until", "last_trigger_ts"},
                         locked |-> FALSE]
      [] pc = "a293" -> [fields |-> {"consecutive_wake_hits", "last_trigger_ts"},
                         locked |-> FALSE]
      [] pc = "a305" -> [fields |-> {"transcribing", "transcription_buffer",
                                     "transcription_start_ts",
                                     "silence_start_ts", "wake_cooldown_until"},
                         locked |-> TRUE]
      [] pc = "a313" -> [fields |-> {"transcription_thread"}, locked |-> FALSE]
      [] OTHER -> [fields |-> {}, locked |-> FALSE]

\* The same for the code of transcription_worker and
\* end_session_and_postprocess.
WorkerAccess(pc) ==
    CASE pc = "w226" -> [fields |-> {"transcribing", "transcription_start_ts",
                                     "silence_start_ts"},
                         locked |-> TRUE]
      [] pc = "w161" -> [fields |-> {"transcription_buffer"}, locked |-> TRUE]
      [] pc = "w211" -> [fields |-> {"transcription_buffer", "transcribing",
                                     "wake_cooldown_until"},
                         locked |-> TRUE]
      [] OTHER -> [fields |-> {}, locked |-> FALSE]

\* ---- C13
\* C13: every step of the audio callback and of the watchdog/finalizer
\* thread that reads or writes transcribing, transcription_buffer,
\* transcription_start_ts, silence_start_ts or wake_cooldown_until is made
\* while holding state_lock.
C13_LockDiscipline ==
    /\ [][a_pc' # a_pc =>
            (AudioAccess(a_pc).fields \cap SessionFields # {}
               => AudioAccess(a_pc).locked)]_vars
    /\ [][\A w \in Workers :
            w_pc'[w] # w_pc[w] =>
              (WorkerAccess(w_pc[w]).fields \cap SessionFields # {}
                 => WorkerAccess(w_pc[w]).locked)]_vars

\* ---- C14
\* C14: the wake scorer is never asked for a prediction (line 289) while a
\* reset of it (lines 146-154) is in progress in a finalizer thread.
C14_NoPredictDuringReset ==
    [][(a_pc = "a289" /\ a_pc' = "a293")
         => \A w \in Workers : w_pc[w] # "w146"]_vars

\* ---- C15
\* C15: on a shutdown that found a session active (running read True at
\* line 333), transcribing has been forced to False and main is left
\* (line 338) only when the worker thread of that session has ended.
C15_JoinBeforeExit ==
    [][(m_pc = "m337" /\ m_pc' = "exited" /\ running)
         => (~transcribing /\ w_pc[transcription_thread] \in Ended)]_vars

\* The clock of the model has reached MaxTime while the watchdog of the
\* session is still polling: the session is open only because the timeouts
\* lie beyond the horizon of the model.
BeyondHorizon ==
    /\ now >= MaxTime
    /\ \E w \in Workers : w_pc[w] \in Polling

\* ---- C16
\* C16: under fair scheduling, with time advancing and every capability
\* call returning or raising, every session that starts returns to idle:
\* transcribing = True leads to transcribing = False (or to the horizon of
\* the model with the watchdog still polling), whatever audio arrives.
C16_SessionReturnsToIdle ==
    transcribing ~> (~transcribing \/ BeyondHorizon)

\* ---- C17
\* C17: a callback that finds a session active only buffers its block, and
\* a callback inside the cooldown window or the retrigger gap returns at
\* once: neither invokes the scorer, and both leave consecutive_wake_hits
\* and last_trigger_ts as they were; the scorer is invoked only by a
\* callback that is outside both windows, with no session active.
C17_GatedCallbackIgnoresScore ==
    /\ [][(a_pc = "a273" /\ a_pc' # "a273")
            => /\ a_pc' = "idle"
               /\ UNCHANGED <<consecutive_wake_hits, last_trigger_ts,
                              recent, script>>]_vars
    /\ [][(/\ a_pc = "a283" /\ a_pc' # "a283"
           /\ Gated(a_now, wake_cooldown_until, last_trigger_ts))
            => /\ a_pc' = "idle"
               /\ UNCHANGED <<consecutive_wake_hits, last_trigger_ts,
                              recent, script>>]_vars
    /\ [][(a_pc = "a289" /\ a_pc' = "a293")
            => ~Gated(a_now, wake_cooldown_until, last_trigger_ts)]_vars
    /\ [](a_pc = "a289" => ~transcribing)

\* Two blocks have arrived during a session and were buffered; no score
\* has been evaluated since the trigger and the counters are as the
\* trigger left them.
C17_Witness ==
    /\ transcribing
    /\ a_pc = "idle"
    /\ Len(appended) = 2
    /\ recent = <<>>
    /\ consecutive_wake_hits = 0
    /\ last_trigger_ts = transcription_start_ts

\* ---- C18
\* C18: the step that sets transcribing = True (lines 305-310) is one step
\* under the lock, taken while no watchdog is polling or finalizing; after
\* it the buffer is empty, transcription_start_ts is the callback's now,
\* silence_start_ts is unset, wake_cooldown_until is now + 0.5 s,
\* last_trigger_ts is now and consecutive_wake_hits is 0.  The one watchdog
\* thread of the session is started (lines 313-314) after that step, with
\* that state still in place, and finds it in place while it polls.
C18_AtomicStart ==
    /\ [][(a_pc = "a305" /\ a_pc' # "a305")
            => /\ a_pc' = "a313"
               /\ ~transcribing /\ transcribing'
               /\ transcription_buffer' = <<>>
               /\ transcription_start_ts' = a_now
               /\ silence_start_ts' = 0
               /\ wake_cooldown_until' = a_now + TRANSITION_GUARD_SEC
               /\ last_trigger_ts' = a_now
               /\ consecutive_wake_hits' = 0
               /\ \A w \in Workers : ~SessionWorker(w) /\ w_pc'[w] = w_pc[w]
               /\ w_pc[nsess] = "none"]_vars
    /\ [][(a_pc = "a313" /\ a_pc' # "a313")
            => /\ w_pc[nsess] = "none" /\ w_pc'[nsess] = "w226"
               /\ \A w \in Workers \ {nsess} : w_pc'[w] = w_pc[w]
               /\ transcribing
               /\ transcription_buffer = <<>>
               /\ transcription_start_ts = a_now
               /\ silence_start_ts = 0
               /\ wake_cooldown_until = a_now + TRANSITION_GUARD_SEC
               /\ transcription_thread' = nsess
               /\ UNCHANGED <<transcribing, transcription_buffer,
                              transcription_start_ts, silence_start_ts,
                              wake_cooldown_until>>]_vars
    /\ [](\A w \in Workers :
            (w = nsess /\ w_pc[w] \in Polling)
              => /\ transcription_start_ts = last_trigger_ts
                 /\ wake_cooldown_until = transcription_start_ts
                                            + TRANSITION_GUARD_SEC)

\* The second session has been started by a callback whose clock value is
\* older than the clock by now; its watchdog is not started yet and the
\* worker of the first session is still in the reset of the wake model.
C18_Witness ==
    /\ a_pc = "a313"
    /\ nsess = 2
    /\ transcribing
    /\ w_pc[2] = "none"
    /\ w_pc[1] = "w146"
    /\ transcription_start_ts = a_now
    /\ a_now < now

\* ---- C19
\* C19: on_audio appends a block to transcription_buffer, or changes
\* silence_start_ts, only at a moment when transcribing is True.
C19_AppendOnlyWhileActive ==
    [][(/\ a_pc = "a273"
        /\ \/ transcription_buffer' # transcription_buffer
           \/ silence_start_ts' # silence_start_ts)
         => transcribing]_vars

\* ---- C20
\* C20: the drain hands the whole buffer to the array; the transcriber is
\* invoked in one step of the finalizer only, at most once per worker, on
\* that array, and exactly when the array is not empty; the post-processor
\* is invoked in one step only, at most once per worker, and exactly when
\* the transcriber returned non-empty text, so never after it raised,
\* returned nothing or was skipped.
C20_TranscribeAndPostProcessOnce ==
    /\ [][\A w \in Workers :
            (w_pc[w] = "w161" /\ w_pc'[w] # "w161")
              => /\ arr'[w] = transcription_buffer
                 /\ transcription_buffer' = <<>>]_vars
    /\ [][\A w \in Workers :
            (w_pc[w] = "w179" /\ w_pc'[w] # "w179")
              => /\ t_out[w] = "none" /\ p_out[w] = "none"
                 /\ arr'[w] = arr[w]
                 /\ (t_out'[w] = "skipped") <=> (arr[w] = <<>>)
                 /\ t_out'[w] # "none"
                 /\ transcript_text'[w] <=> (t_out'[w] = "text")]_vars
    /\ [][\A w \in Workers :
            (w_pc[w] = "w201" /\ w_pc'[w] # "w201")
              => /\ p_out[w] = "none"
                 /\ (p_out'[w] \in {"ok", "raise"}) <=> (t_out[w] = "text")
                 /\ (p_out'[w] = "skipped") <=> (t_out[w] # "text")]_vars
    /\ [][\A w \in Workers :
            /\ t_out'[w] \notin {t_out[w], "none"} => w_pc[w] = "w179"
            /\ p_out'[w] \notin {p_out[w], "none"} => w_pc[w] = "w201"]_vars

\* A session of two blocks was transcribed to text in one call and the
\* text was post-processed; the finalizer is about to clean up.
C20_Witness ==
    \E w \in Workers :
        /\ w_pc[w] = "w211"
        /\ Len(arr[w]) = 2
        /\ t_out[w] = "text"
        /\ p_out[w] = "ok"

\* ---- C21
\* C21: the step of on_audio that processes a block (lines 273-279) leaves
\* silence_start_ts unset if the block is not silent, and otherwise equal to
\* the callback time of the first block of the unbroken run of silent
\* blocks that the block continues or begins, so a silent block leaves a
\* timer that is set as it is; while a session is active silence_start_ts
\* is that time if the last block was silent and unset if not.
C21_SilenceRunStart ==
    /\ [][(a_pc = "a273" /\ a_pc' # "a273")
            => /\ silence_start_ts' =
                    (IF a_rms < RMS_SILENCE_THRESHOLD THEN run_T' ELSE 0)
               /\ (a_rms < RMS_SILENCE_THRESHOLD /\ silence_start_ts # 0)
                    => silence_start_ts' = silence_start_ts]_vars
    /\ [](transcribing =>
            silence_start_ts = (IF last_silent THEN run_T ELSE 0))

\* A silent block arrives in a session of two blocks whose run of silent
\* blocks has been open since an earlier clock value.
C21_Witness ==
    /\ a_pc = "a273"
    /\ transcribing
    /\ a_rms < RMS_SILENCE_THRESHOLD
    /\ last_silent
    /\ Len(appended) = 2
    /\ silence_start_ts > transcription_start_ts
    /\ a_now > silence_start_ts

\* ---- C22
\* C22: a worker whose poll found transcribing False (the session was
\* cancelled from outside) ends the session as a no-op: none of its steps
\* changes transcription_buffer, transcribing or wake_cooldown_until, it
\* invokes neither the transcriber nor the post-processor, and it does not
\* end by an exception.
C22_EndWhileIdleIsNoOp ==
    [][\A w \in Workers :
         (w_why[w] = "stopped" /\ w_pc'[w] # w_pc[w])
           => /\ UNCHANGED <<transcription_buffer, transcribing,
                             wake_cooldown_until>>
              /\ t_out'[w] \in {"none", "skipped"}
              /\ p_out'[w] \in {"none", "skipped"}
              /\ w_pc'[w] # "raised198"]_vars

\* ---- C23
\* C23: a poll of the watchdog (lines 224-242) changes none of the shared
\* names, the session buffer included; and a poll that leaves the loop on a
\* timeout leaves transcribing False before end_session_and_postprocess is
\* entered.
C23_WatchdogOnlyFlipsFlag ==
    /\ [][\A w \in Workers :
            (w_pc[w] \in Polling /\ w_pc'[w] # w_pc[w])
              => transcription_buffer' = transcription_buffer]_vars
    /\ [][\A w \in Workers :
            (/\ w_pc[w] = "w226" /\ w_pc'[w] = "w161"
             /\ w_why'[w] \in {"max", "silence"})
              => ~transcribing']_vars

\* ---- C24
\* C24: a TextBufferEPD in fast mode with full_refresh_every = N > 0, on a
\* driver that offers displayPartial, never has more than N partial updates
\* sent to the panel since the last full refresh, whatever calls of write,
\* writeline, set_text, clear and push are made; _partials_since_full never
\* exceeds N, and it is 0 whenever the last update sent to the panel was a
\* full refresh.
C24_FullRefreshEveryN ==
    (tb.fast_mode /\ tb.full_refresh_every > 0 /\ tb.displayPartial)
      => /\ tb.panel_partials <= tb.full_refresh_every
         /\ tb.partials_since_full <= tb.full_refresh_every
         /\ tb.panel_last = "full" => tb.partials_since_full = 0

\* ---- C25
\* C25: consecutive_wake_hits is at least 0 and below
\* WAKE_HYSTERESIS_FRAMES whenever no callback is in progress, and it is 0
\* in every state in which transcribing is True or the clock is before
\* wake_cooldown_until: a session starts and ends with the count at 0.
C25_HitsRange ==
    /\ a_pc \in {"idle", "aborted"}
         => (0 <= consecutive_wake_hits
               /\ consecutive_wake_hits < WAKE_HYSTERESIS_FRAMES)
    /\ (transcribing \/ now < wake_cooldown_until)
         => consecutive_wake_hits = 0

\* After a session and its cooldown two chunks in a row have scored at the
\* threshold and the callback has returned: the count is one short of a
\* trigger.
C25_Witness ==
    /\ nsess = 1
    /\ ~transcribing
    /\ w_pc[1] = "done"
    /\ a_pc = "idle"
    /\ now >= wake_cooldown_until
    /\ consecutive_wake_hits = WAKE_HYSTERESIS_FRAMES - 1

\* ---- C26
\* C26: with the clock starting at 0, a trigger fires only in a callback
\* whose time is at least RETRIGGER_GAP_SEC, so transcription_start_ts of a
\* session is positive, every time written to silence_start_ts by a silent
\* block is positive, and while a session is active and its last block was
\* silent the watchdog reads silence_start_ts > 0: a recorded run of silence
\* is never read as 'no silence'.
C26_ZeroIsUnset ==
    /\ [][TriggerStep => a_now >= RETRIGGER_GAP_SEC]_vars
    /\ [](transcribing => transcription_start_ts >= RETRIGGER_GAP_SEC)
    /\ [][(/\ a_pc = "a273" /\ a_pc' # "a273"
           /\ a_rms < RMS_SILENCE_THRESHOLD)
            => silence_start_ts' >= RETRIGGER_GAP_SEC]_vars
    /\ [](silence_start_ts # 0 => silence_start_ts >= RETRIGGER_GAP_SEC)
    /\ []((transcribing /\ last_silent) => silence_start_ts > 0)

\* The earliest session: started at the clock value RETRIGGER_GAP_SEC, with
\* a silent block processed at that same clock value.
C26_Witness ==
    /\ transcribing
    /\ last_silent
    /\ transcription_start_ts = RETRIGGER_GAP_SEC
    /\ silence_start_ts = RETRIGGER_GAP_SEC

====
